---- MODULE Spec2Model ----
(***************************************************************************)
(* Method relationship graph: similarity scoring, graph construction,      *)
(* cluster regions (src/src/viz/RelationshipGraphViz.js) and the lifecycle *)
(* of the React wrapper that owns the visualization                        *)
(* (src/unnamed/part_002, the RelationshipGraph component).                *)
(*                                                                         *)
(* Conventions.                                                            *)
(*  - Scores and strengths are kept in hundredths (0.25 is 25, 1 is 100).  *)
(*  - A JavaScript string that is sorted or joined (a method id) is a      *)
(*    sequence of one-character strings; Code gives the UTF-16 code unit   *)
(*    the default Array.prototype.sort compares by.                        *)
(*  - A JavaScript array is a sequence; Array.prototype.filter, find and   *)
(*    the stable sort are modelled by what they compute.                   *)
(***************************************************************************)
EXTENDS Integers, Sequences, FiniteSets, TLC

VARIABLES
    methods,        \* data.methods: the catalog handed to the builder
    pipelineSteps,  \* data.pipelineSteps
    options,        \* link-generation options of buildGraphData
    phase,          \* position of the pure-function drivers: "input" | "scored" | "built" | "ticked"
    score,          \* calculateSimilarity over every ordered pair of methods
    graph,          \* value returned by buildGraphData: [nodes, links]
    clusters,       \* value returned by computeClusterHulls on graph.nodes
    width,          \* measurable width of the container (0: none)
    created,        \* number of force simulations created so far; the n-th is instance n
    running,        \* instances whose force simulation timer is running
    attached,       \* instance whose SVG is in the container, 0 when the container is empty
    vizRef,         \* vizRef.current: the handle the wrapper holds
    mounted,        \* the RelationshipGraph component is mounted
    effectGen,      \* number of the current run of the init and resize effects
    rafPending,     \* effect runs whose requestAnimationFrame callback is pending
    retryTimers,    \* effect runs whose zero-width retry timeout is pending
    resizeTimers,   \* pending timeouts set by debouncedResize
    resizeTimeout,  \* the resize effect's resizeTimeout variable, 0 when undefined
    sinceResize,    \* time since the last resize event, in units of 50 ms
    burst,          \* history: resize events and rebuilds of the current burst
    threw,          \* history: an event handler threw
    initFailed,     \* history: instances whose createRelationshipGraph call threw
    retryTimeout,   \* id of the retry timeout initViz set last, 0 when none is pending (ids alternate 1, 2)
    destroyed,      \* history: destroy() was called on the handle vizRef.current holds
    selectedMethodId,   \* options.selectedMethodId of the visualization, <<>> when null
    zoomK,              \* event.transform.k of the last zoom event, in thousandths
    currentZoomScale,   \* currentZoomScale of createRelationshipGraph, in thousandths
    zoomIndicator,      \* texts of zoomLevelText and zoomPercentText
    zoomHint,           \* opacity of the zoom-hint group: "shown" (1) | "hidden" (0)
    detailCards,        \* detail cards in the node group: "none" | "detailed" | "full"
    circles,            \* per node: r (percent of nodeRadius), filter, stroke, stroke-width
    nodeOpacity,        \* per node: opacity of the node group, in hundredths
    linkStyle,          \* per link: opacity (hundredths) and stroke-width (hundredths of px)
    hovered,            \* index of the node the pointer is over, 0 when none
    applied,            \* history: what the last updateSemanticZoom call computed
    snapshot,           \* history: the styles just before the current hover-enter
    simulation,         \* the force simulation: alpha, alphaTarget, timer, per node x and fx
    gestures            \* d3-drag's active gestures: per pointer the node it drags, 0 when up

dataVars == <<methods, pipelineSteps, options, phase, score, graph, clusters>>

lifeVars == <<width, created, running, attached, vizRef, mounted, effectGen,
              rafPending, retryTimers, resizeTimers, resizeTimeout, sinceResize,
              burst, threw, initFailed, retryTimeout, destroyed>>

viewVars == <<selectedMethodId, zoomK, currentZoomScale, zoomIndicator, zoomHint, detailCards,
              circles, nodeOpacity, linkStyle, hovered, applied, snapshot>>

dragVars == <<simulation, gestures>>

vars == <<dataVars, lifeVars, viewVars, dragVars>>

----------------------------------------------------------------------------
(* Bounds of the inputs.                                                   *)

MaxListLen == 2     \* longest modality list of a record given to calculateSimilarity
MaxMethods == 3     \* largest catalog given to buildGraphData
MaxCap == 2         \* largest maxSimilarLinks option
MaxWidth == 2       \* container widths range over 0..MaxWidth
MaxInstances == 4   \* visualizations created in one behaviour
MaxGens == 2        \* runs of the wrapper's effects in one behaviour
MaxBurst == 2       \* resize events between two rebuilds
MaxShared == 5      \* longest task list of a scenario catalog
MaxSameStep == 5
MaxPos == 1          \* node positions of the layout are 0..MaxPos    \* largest scenario catalog whose methods share one step

----------------------------------------------------------------------------
(* JavaScript helpers.                                                     *)

Min(a, b) == IF a < b THEN a ELSE b

Abs(a) == IF a < 0 THEN -a ELSE a

Range(s) == {s[i] : i \in DOMAIN s}

\* Sequences over S of length at most n.
SeqsUpTo(S, n) == UNION {[1..k -> S] : k \in 0..n}

\* UTF-16 code unit of a character of an identifier.
Code(c) ==
    CASE c = "-" -> 45
      [] c = "a" -> 97
      [] c = "b" -> 98
      [] c = "c" -> 99
      [] c = "d" -> 100
      [] c = "e" -> 101
      [] c = "f" -> 102
      [] c = "g" -> 103
      [] c = "z" -> 122

\* s < t as the default sort compares strings: by code units, a proper
\* prefix first.
RECURSIVE StrLess(_, _)
StrLess(s, t) ==
    IF t = <<>> THEN FALSE
    ELSE IF s = <<>> THEN TRUE
    ELSE IF Code(Head(s)) # Code(Head(t)) THEN Code(Head(s)) < Code(Head(t))
    ELSE StrLess(Tail(s), Tail(t))

\* array1.filter((x) => array2.includes(x)).length
SharedCount(array1, array2) ==
    Cardinality({i \in DOMAIN array1 : \E j \in DOMAIN array2 : array2[j] = array1[i]})

\* pipelineSteps.find((s) => s.id === stepId): index of the first match, 0
\* when find returns undefined.
FindStep(steps, stepId) ==
    IF \E i \in DOMAIN steps : steps[i].id = stepId
    THEN CHOOSE i \in DOMAIN steps :
            /\ steps[i].id = stepId
            /\ \A j \in 1..(i - 1) : steps[j].id # stepId
    ELSE 0

----------------------------------------------------------------------------
(* calculateSimilarity                                                     *)

StepProximity(method1, method2, steps) ==
    LET step1 == FindStep(steps, method1.pipeline_step)
        step2 == FindStep(steps, method2.pipeline_step)
    IN  IF step1 # 0 /\ step2 # 0
        THEN LET stepDiff == Abs(steps[step1].order - steps[step2].order)
             IN  IF stepDiff = 0 THEN 15
                 ELSE IF stepDiff = 1 THEN 5
                 ELSE 0
        ELSE 0

RawSimilarity(method1, method2, steps) ==
    SharedCount(method1.modalities, method2.modalities) * 25
    + SharedCount(method1.tasks, method2.tasks) * 20
    + SharedCount(method1.tags, method2.tags) * 10
    + StepProximity(method1, method2, steps)
    + (IF method1.maturity = method2.maturity THEN 5 ELSE 0)
    + (IF method1.evidence_type = method2.evidence_type THEN 5 ELSE 0)

\* calculateSimilarity returning the unclamped sum.
calculateSimilarityUnclamped(method1, method2, steps) ==
    IF method1.id = method2.id THEN 0
    ELSE RawSimilarity(method1, method2, steps)

calculateSimilarity(method1, method2, steps) ==
    IF method1.id = method2.id THEN 0
    ELSE Min(RawSimilarity(method1, method2, steps), 100)

----------------------------------------------------------------------------
(* buildGraphData                                                          *)

RECURSIVE Flatten(_)
Flatten(seqs) == IF seqs = <<>> THEN <<>> ELSE Head(seqs) \o Flatten(Tail(seqs))

\* The index pairs visited by
\*   for (i = 0; i < n; i++) for (j = i + 1; j < n; j++)
\* in the order the loops visit them (1-based).
IndexPairs(n) == Flatten([i \in 1..n |-> [k \in 1..(n - i) |-> <<i, i + k>>]])

\* [source, target].sort()
SortPair(source, target) ==
    IF StrLess(target, source) THEN <<target, source>> ELSE <<source, target>>

\* [source, target].sort().join('--')
LinkKey(source, target) ==
    LET sorted == SortPair(source, target)
    IN  sorted[1] \o <<"-", "-">> \o sorted[2]

\* State of the builder while the stages run: the links array and the
\* addedLinks set.
EmptyBuild == [links |-> <<>>, addedLinks |-> {}]

\* addLink without the addedLinks test.
addLinkNoDedup(st, source, target, type, strength) ==
    IF source # target
    THEN [links |-> Append(st.links,
                           [source |-> source, target |-> target,
                            type |-> type, strength |-> strength]),
          addedLinks |-> st.addedLinks \cup {LinkKey(source, target)}]
    ELSE st

\* addLink letting a later call for a connected pair replace the pair's edge.
addLinkReplace(st, source, target, type, strength) ==
    LET key == LinkKey(source, target)
        new == [source |-> source, target |-> target,
                type |-> type, strength |-> strength]
    IN  IF source = target THEN st
        ELSE IF key \in st.addedLinks
        THEN [links |-> [k \in DOMAIN st.links |->
                            IF LinkKey(st.links[k].source, st.links[k].target) = key
                            THEN new ELSE st.links[k]],
              addedLinks |-> st.addedLinks]
        ELSE [links |-> Append(st.links, new),
              addedLinks |-> st.addedLinks \cup {key}]

\* const addLink = (source, target, type, strength) => { ... }
addLink(st, source, target, type, strength) ==
    LET key == LinkKey(source, target)
    IN  IF key \notin st.addedLinks /\ source # target
        THEN [links |-> Append(st.links,
                               [source |-> source, target |-> target,
                                type |-> type, strength |-> strength]),
              addedLinks |-> st.addedLinks \cup {key}]
        ELSE st

\* A stage is the sequence of addLink calls it makes, applied in order.
RECURSIVE AddLinks(_, _)
AddLinks(st, calls) ==
    IF calls = <<>> THEN st
    ELSE AddLinks(addLink(st, Head(calls).source, Head(calls).target,
                          Head(calls).type, Head(calls).strength),
                  Tail(calls))

LinkCall(source, target, type, strength) ==
    [source |-> source, target |-> target, type |-> type, strength |-> strength]

\* const nodes = methods.map(...): the fields the claims read (degree is
\* filled in at the end of the build).
MakeNodes(ms) ==
    [i \in DOMAIN ms |-> [id |-> ms[i].id, pipelineStep |-> ms[i].pipeline_step]]

\* The explicit stage without the nodeMap.has guard.
NodeMapHasAlways(nodes, relatedId) == TRUE

\* nodeMap.has(relatedId)
NodeMapHas(nodes, relatedId) == \E i \in DOMAIN nodes : nodes[i].id = relatedId

\* The explicit stage reading only the first related id of each method.
ExplicitCallsFirstOnly(ms, nodes) ==
    Flatten([i \in DOMAIN ms |->
        LET related == ms[i].related_method_ids
            first == IF related = <<>> THEN <<>> ELSE <<Head(related)>>
            resolved == SelectSeq(first, LAMBDA relatedId : NodeMapHas(nodes, relatedId))
        IN  [k \in DOMAIN resolved |-> LinkCall(ms[i].id, resolved[k], "explicit", 100)]])

\* 1. Explicit relationships from data
ExplicitCalls(ms, nodes) ==
    Flatten([i \in DOMAIN ms |->
        LET resolved == SelectSeq(ms[i].related_method_ids,
                                  LAMBDA relatedId : NodeMapHas(nodes, relatedId))
        IN  [k \in DOMAIN resolved |-> LinkCall(ms[i].id, resolved[k], "explicit", 100)]])

\* The same-step stage linking only neighbours in the step's method list.
SameStepCallsAdjacent(ms, steps) ==
    Flatten([s \in DOMAIN steps |->
        LET stepMethods == SelectSeq(ms, LAMBDA m : m.pipeline_step = steps[s].id)
        IN  [k \in 1..(Len(stepMethods) - 1) |->
                LinkCall(stepMethods[k].id, stepMethods[k + 1].id, "sameStep", 30)]])

\* 2. Same pipeline step links
SameStepCalls(ms, steps) ==
    Flatten([s \in DOMAIN steps |->
        LET stepMethods == SelectSeq(ms, LAMBDA m : m.pipeline_step = steps[s].id)
            pairs == IndexPairs(Len(stepMethods))
        IN  [k \in DOMAIN pairs |->
                LinkCall(stepMethods[pairs[k][1]].id, stepMethods[pairs[k][2]].id,
                         "sameStep", 30)]])

\* 3. Shared modality links
SharedModalityCalls(ms) ==
    LET applies(p) ==
            /\ SharedCount(ms[p[1]].modalities, ms[p[2]].modalities) > 0
            /\ ms[p[1]].pipeline_step # ms[p[2]].pipeline_step
        pairs == SelectSeq(IndexPairs(Len(ms)), applies)
    IN  [k \in DOMAIN pairs |->
            LinkCall(ms[pairs[k][1]].id, ms[pairs[k][2]].id, "sharedModality",
                     40 + SharedCount(ms[pairs[k][1]].modalities,
                                      ms[pairs[k][2]].modalities) * 10)]

\* 4. Shared task links
SharedTaskCalls(ms) ==
    LET applies(p) ==
            /\ SharedCount(ms[p[1]].tasks, ms[p[2]].tasks) > 0
            /\ ms[p[1]].pipeline_step # ms[p[2]].pipeline_step
        pairs == SelectSeq(IndexPairs(Len(ms)), applies)
    IN  [k \in DOMAIN pairs |->
            LinkCall(ms[pairs[k][1]].id, ms[pairs[k][2]].id, "sharedTask",
                     30 + SharedCount(ms[pairs[k][1]].tasks, ms[pairs[k][2]].tasks) * 15)]

\* The candidate selection without the threshold test.
SimilarityCandidatesAll(ms, steps, similarityThreshold) ==
    LET pairs == IndexPairs(Len(ms))
    IN  [k \in DOMAIN pairs |->
            [source |-> ms[pairs[k][1]].id, target |-> ms[pairs[k][2]].id,
             similarity |-> calculateSimilarity(ms[pairs[k][1]], ms[pairs[k][2]], steps)]]

\* 5. Candidates: every pair i < j whose similarity reaches the threshold.
SimilarityCandidates(ms, steps, similarityThreshold) ==
    LET pairs == IndexPairs(Len(ms))
        all == [k \in DOMAIN pairs |->
                  [source |-> ms[pairs[k][1]].id, target |-> ms[pairs[k][2]].id,
                   similarity |-> calculateSimilarity(ms[pairs[k][1]], ms[pairs[k][2]], steps)]]
    IN  SelectSeq(all, LAMBDA c : c.similarity >= similarityThreshold)

\* similarities.sort((a, b) => b.similarity - a.similarity): stable,
\* descending by similarity.
RECURSIVE InsertDesc(_, _)
InsertDesc(sorted, c) ==
    IF sorted = <<>> THEN <<c>>
    ELSE IF Head(sorted).similarity >= c.similarity
         THEN <<Head(sorted)>> \o InsertDesc(Tail(sorted), c)
         ELSE <<c>> \o sorted

RECURSIVE SortDesc(_)
SortDesc(cands) ==
    IF cands = <<>> THEN <<>>
    ELSE InsertDesc(SortDesc(SubSeq(cands, 1, Len(cands) - 1)), cands[Len(cands)])

\* new Map()
EmptyMap == [x \in {} |-> 0]

\* map.get(id) || 0 for a Map of counters (nodeLinkCounts, degreeMap)
MapGet(map, id) ==
    IF id \in DOMAIN map THEN map[id] ELSE 0

\* map.set(id, n)
MapSet(map, id, n) ==
    [x \in DOMAIN map \cup {id} |-> IF x = id THEN n ELSE map[x]]

\* The cap tested on the source endpoint only.
UnderCapSourceOnly(sourceCount, targetCount, maxSimilarLinks) ==
    sourceCount < maxSimilarLinks

\* sourceCount < maxSimilarLinks && targetCount < maxSimilarLinks
UnderCap(sourceCount, targetCount, maxSimilarLinks) ==
    sourceCount < maxSimilarLinks /\ targetCount < maxSimilarLinks

\* similarities.forEach(({source, target, similarity}) => { ... })
RECURSIVE LimitPerNode(_, _, _, _)
LimitPerNode(st, nodeLinkCounts, sims, maxSimilarLinks) ==
    IF sims = <<>> THEN st
    ELSE LET c == Head(sims)
             sourceCount == MapGet(nodeLinkCounts, c.source)
             targetCount == MapGet(nodeLinkCounts, c.target)
         IN  IF UnderCap(sourceCount, targetCount, maxSimilarLinks)
             THEN LimitPerNode(
                      addLink(st, c.source, c.target, "similar", c.similarity),
                      MapSet(MapSet(nodeLinkCounts, c.source, sourceCount + 1),
                               c.target, targetCount + 1),
                      Tail(sims), maxSimilarLinks)
             ELSE LimitPerNode(st, nodeLinkCounts, Tail(sims), maxSimilarLinks)

SimilarStage(st, ms, steps, opts) ==
    LimitPerNode(st, EmptyMap,
                 SortDesc(SimilarityCandidates(ms, steps, opts.similarityThreshold)),
                 opts.maxSimilarLinks)

\* The degree count incrementing the source endpoint only.
RECURSIVE DegreeMapSourceOnly(_, _)
DegreeMapSourceOnly(degreeMap, links) ==
    IF links = <<>> THEN degreeMap
    ELSE DegreeMapSourceOnly(
             MapSet(degreeMap, Head(links).source,
                    MapGet(degreeMap, Head(links).source) + 1),
             Tail(links))

\* links.forEach((link) => { degreeMap.set(link.source, ...); degreeMap.set(link.target, ...) })
RECURSIVE DegreeMap(_, _)
DegreeMap(degreeMap, links) ==
    IF links = <<>> THEN degreeMap
    ELSE LET link == Head(links)
             d1 == MapSet(degreeMap, link.source, MapGet(degreeMap, link.source) + 1)
             d2 == MapSet(d1, link.target, MapGet(d1, link.target) + 1)
         IN  DegreeMap(d2, Tail(links))

\* The five stages in the order the code runs them.
BuildLinks(ms, steps, opts) ==
    LET nodes == MakeNodes(ms)
        s1 == IF opts.showExplicitRelations
              THEN AddLinks(EmptyBuild, ExplicitCalls(ms, nodes)) ELSE EmptyBuild
        s2 == IF opts.showSameStepLinks
              THEN AddLinks(s1, SameStepCalls(ms, steps)) ELSE s1
        s3 == IF opts.showSharedModalityLinks
              THEN AddLinks(s2, SharedModalityCalls(ms)) ELSE s2
        s4 == IF opts.showSharedTaskLinks
              THEN AddLinks(s3, SharedTaskCalls(ms)) ELSE s3
        s5 == IF opts.showSimilarMethods
              THEN SimilarStage(s4, ms, steps, opts) ELSE s4
    IN  s5.links

buildGraphData(ms, steps, opts) ==
    LET links == BuildLinks(ms, steps, opts)
        nodes == MakeNodes(ms)
        degreeMap == DegreeMap(EmptyMap, links)
    IN  [nodes |-> [i \in DOMAIN nodes |->
                      [id |-> nodes[i].id,
                       pipelineStep |-> nodes[i].pipelineStep,
                       degree |-> MapGet(degreeMap, nodes[i].id)]],
         links |-> links]

----------------------------------------------------------------------------
(* computeClusterHulls                                                     *)

\* clusters: a Map keyed by step.id, in insertion order of the first set of
\* each key; a later step with the same id replaces the value in place.
\* Each value keeps the nodes pushed to it; only non-empty ones are returned.
StepKeys(steps) ==
    LET firsts == SelectSeq([i \in DOMAIN steps |-> i],
                            LAMBDA i : FindStep(steps, steps[i].id) = i)
    IN  [k \in DOMAIN firsts |-> steps[firsts[k]].id]

\* computeClusterHulls assigning by position in the step list instead of by
\* step id: every node goes to the first region.
computeClusterHullsFirst(nodes, steps) ==
    LET keys == StepKeys(steps)
        all == [k \in DOMAIN keys |->
                  [id |-> keys[k],
                   nodes |-> IF k = 1 THEN nodes ELSE <<>>]]
    IN  SelectSeq(all, LAMBDA c : Len(c.nodes) > 0)

computeClusterHulls(nodes, steps) ==
    LET keys == StepKeys(steps)
        all == [k \in DOMAIN keys |->
                  [id |-> keys[k],
                   nodes |-> SelectSeq(nodes, LAMBDA n : n.pipelineStep = keys[k])]]
    IN  SelectSeq(all, LAMBDA c : Len(c.nodes) > 0)

----------------------------------------------------------------------------
(* Inputs.                                                                 *)

\* Identifier of the i-th method of a catalog: "a", "b", "c", ...
MethodId(i) == <<<<"a">>, <<"b">>, <<"c">>, <<"d">>, <<"e">>, <<"f">>, <<"g">>>>[i]

\* An identifier that is the id of no method.
StaleId == <<"z">>

\* The pipeline-step list of the inputs: three steps, the third two orders
\* away from the second. "sx" is the id of no step.
Steps ==
    << [id |-> "s1", order |-> 1],
       [id |-> "s2", order |-> 2],
       [id |-> "s3", order |-> 4] >>

NoGraph == [nodes |-> <<>>, links |-> <<>>]

DefaultOptions ==
    [showExplicitRelations |-> TRUE, showSimilarMethods |-> TRUE,
     similarityThreshold |-> 35, showSameStepLinks |-> FALSE,
     showSharedModalityLinks |-> FALSE, showSharedTaskLinks |-> FALSE,
     maxSimilarLinks |-> 3]

Record(id, step, modalities, tasks, tags, maturity, evidence, related) ==
    [id |-> id, pipeline_step |-> step, modalities |-> modalities,
     tasks |-> tasks, tags |-> tags, maturity |-> maturity,
     evidence_type |-> evidence, related_method_ids |-> related]

(* Pairs of records for calculateSimilarity. The second record ranges over  *)
(* both ids, every step, both maturities and evidence types; list fields    *)
(* may repeat an element.                                                   *)
ModalityLists == SeqsUpTo({"text", "image"}, MaxListLen)
TaskLists == {<<>>, <<"k">>, <<"k", "k">>}
TagLists == {<<>>, <<"g">>}

SimFirst ==
    {Record(MethodId(1), st, mo, ta, tg, "m1", "e1", <<>>) :
        st \in {"s1", "sx"}, mo \in ModalityLists, ta \in TaskLists, tg \in TagLists}

SimSecond ==
    UNION {{Record(MethodId(i), st, mo, ta, tg, ma, ev, <<>>) :
                st \in {"s1", "s2", "s3"}, mo \in ModalityLists,
                ta \in TaskLists, tg \in TagLists} :
           i \in 1..2, ma \in {"m1", "m2"}, ev \in {"e1", "e2"}}

(* Catalogs for buildGraphData: every method takes one of three shapes and  *)
(* one of two related-id lists.                                             *)
Shapes ==
    { [step |-> "s1", modalities |-> <<"text">>, tasks |-> <<"k">>],
      [step |-> "s2", modalities |-> <<"text", "image">>, tasks |-> <<"k">>],
      [step |-> "sx", modalities |-> <<"image">>, tasks |-> <<>>] }

\* Related-id lists of the i-th of n methods: none, or a stale id followed
\* by the next method of the catalog (the method itself when n = 1, the
\* other method when n = 2, so that two methods can list each other).
RelatedLists(i, n) == { <<>>, <<StaleId, MethodId((i % n) + 1)>> }

Catalogs ==
    UNION {{[i \in 1..n |->
                Record(MethodId(i), sh[i].step, sh[i].modalities, sh[i].tasks,
                       <<>>, "m1", "e1", rel[i])] :
              sh \in [1..n -> Shapes],
              rel \in {r \in [1..n -> UNION {RelatedLists(i, n) : i \in 1..n}] :
                          \A i \in 1..n : r[i] \in RelatedLists(i, n)}} :
           n \in 1..MaxMethods}

Thresholds == {30, 65}

OptionSets ==
    [showExplicitRelations : BOOLEAN, showSimilarMethods : BOOLEAN,
     similarityThreshold : Thresholds, showSameStepLinks : BOOLEAN,
     showSharedModalityLinks : BOOLEAN, showSharedTaskLinks : BOOLEAN,
     maxSimilarLinks : 1..MaxCap]

(* Scenario catalogs. Two methods whose task lists are the first a and the  *)
(* first b task names (up to MaxShared shared tasks), and catalogs of up to *)
(* MaxSameStep methods that all have one pipeline-step id.                  *)
TaskPool == <<"k1", "k2", "k3", "k4", "k5", "k6", "k7">>

FirstTasks(n) == SubSeq(TaskPool, 1, n)

LongListCatalogs ==
    {<<Record(MethodId(1), "s1", <<"text">>, FirstTasks(a), <<>>, "m1", "e1", <<>>),
       Record(MethodId(2), st, mo, FirstTasks(b), <<>>, "m1", "e1", rel)>> :
        a \in 0..MaxShared, b \in 0..MaxShared, st \in {"s1", "s2"},
        mo \in {<<"text">>, <<"image">>}, rel \in RelatedLists(2, 2)}

SameStepCatalogs ==
    {[i \in 1..n |->
        Record(MethodId(i), st, mo, <<>>, <<>>, "m1", "e1",
               IF chain THEN <<MethodId((i % n) + 1)>> ELSE <<>>)] :
        n \in 1..MaxSameStep, st \in {"s1", "s3", "sx"},
        mo \in {<<"text">>, <<>>}, chain \in BOOLEAN}

ScenarioCatalogs == LongListCatalogs \cup SameStepCatalogs

----------------------------------------------------------------------------
(* createRelationshipGraph and its handle.                                 *)

\* vizRef.current before the first visualization: useRef(null).
NullHandle == [kind |-> "null", inst |-> 0, width |-> 0]

\* return { update: () => {}, destroy: () => {} } of the zero-width guard.
NoopHandle == [kind |-> "noop", inst |-> 0, width |-> 0]

\* The controls object returned at the end of createRelationshipGraph, for
\* instance inst drawn at width w.
FullHandle(inst, w) == [kind |-> "full", inst |-> inst, width |-> w]

\* Property names of a handle.
HandleOps(handle) ==
    CASE handle.kind = "full" ->
            {"update", "destroy", "zoomToFit", "zoomIn", "zoomOut", "resetSimulation"}
      [] handle.kind = "noop" -> {"update", "destroy"}
      [] OTHER -> {}

\* The surface state createRelationshipGraph and destroy act on.
Surface(run, att, n) == [running |-> run, attached |-> att, created |-> n]

\* createRelationshipGraph(container, data, options) on a container of
\* width w: the zero-width guard returns the two-method handle and touches
\* nothing; otherwise the container is cleared, a new SVG is appended and a
\* new force simulation starts.
CreateSurface(surface, w) ==
    IF w = 0 THEN surface
    ELSE Surface(surface.running \cup {surface.created + 1},
                 surface.created + 1, surface.created + 1)

CreateHandle(surface, w) ==
    IF w = 0 THEN NoopHandle ELSE FullHandle(surface.created + 1, w)

\* handle.destroy(): simulation.stop() and
\* d3.select(container).selectAll('*').remove() for a full handle, nothing
\* for the zero-width handle.
DestroySurface(surface, handle) ==
    IF handle.kind = "full"
    THEN Surface(surface.running \ {handle.inst}, 0, surface.created)
    ELSE surface

\* if (vizRef.current) vizRef.current.destroy()
DestroyCurrent(surface, handle) ==
    IF handle.kind = "null" THEN surface ELSE DestroySurface(surface, handle)

CurrentSurface == Surface(running, attached, created)

SetSurface(surface) ==
    /\ running' = surface.running
    /\ attached' = surface.attached
    /\ created' = surface.created

----------------------------------------------------------------------------
(* The RelationshipGraph wrapper.                                          *)

DebounceUnits == 3      \* setTimeout(handleResize, 150), in units of 50 ms

\* History of the resize bursts: events since the last rebuild request was
\* served or dropped, rebuilds made for the current burst, and the number
\* of events the last served request had coalesced.
NoBurst == [events |-> 0, rebuilds |-> 0, served |-> 0]

\* debouncedResize dropping no timeout.
DebouncedTimersKeep(timers, last, timer) == timers \cup {timer}

\* clearTimeout(resizeTimeout); resizeTimeout = setTimeout(handleResize, 150)
DebouncedTimers(timers, last, timer) == (timers \ {last}) \cup {timer}

InitLife ==
    /\ width \in 0..MaxWidth
    /\ created = 0
    /\ running = {}
    /\ attached = 0
    /\ vizRef = NullHandle
    /\ mounted = TRUE
    /\ effectGen = 1
    /\ rafPending = {1}
    /\ retryTimers = {}
    /\ resizeTimers = {}
    /\ resizeTimeout = 0
    /\ sinceResize = 0
    /\ burst = NoBurst
    /\ threw = FALSE
    /\ initFailed = {}
    /\ retryTimeout = 0
    /\ destroyed = FALSE

\* The state of the wrapper while the pure functions are driven.
IdleLife ==
    /\ width = 0
    /\ created = 0
    /\ running = {}
    /\ attached = 0
    /\ vizRef = NullHandle
    /\ mounted = FALSE
    /\ effectGen = 0
    /\ rafPending = {}
    /\ retryTimers = {}
    /\ resizeTimers = {}
    /\ resizeTimeout = 0
    /\ sinceResize = 0
    /\ burst = NoBurst
    /\ threw = FALSE
    /\ initFailed = {}
    /\ retryTimeout = 0
    /\ destroyed = FALSE

\* The id setTimeout returns: different from the id of the timeout before.
NextTimeout(last) == IF last = 1 THEN 2 ELSE 1

\* The retry timeout variable once effect run g has no timeout pending.
ClearedTimeout(timers, last) == IF timers = {} THEN 0 ELSE last

\* initViz of effect run g. The container is containerRef.current, null
\* once the component is unmounted.
initViz(g) ==
    IF ~mounted \/ width = 0
    THEN /\ retryTimers' = retryTimers \cup {g}
         /\ retryTimeout' = NextTimeout(retryTimeout)
         /\ UNCHANGED <<vizRef, running, attached, created, destroyed>>
    ELSE /\ created < MaxInstances
         /\ retryTimers' = retryTimers \ {g}
         /\ retryTimeout' = ClearedTimeout(retryTimers \ {g}, retryTimeout)
         /\ destroyed' = FALSE
         /\ vizRef' = CreateHandle(CurrentSurface, width)
         /\ SetSurface(CreateSurface(CurrentSurface, width))

\* The animation frame requested by the init effect fires.
RafFires ==
    \E g \in rafPending :
        /\ rafPending' = rafPending \ {g}
        /\ initViz(g)
        /\ UNCHANGED <<dataVars, viewVars, dragVars, initFailed, width, mounted, effectGen, resizeTimers,
                       resizeTimeout, sinceResize, burst, threw>>

\* A zero-width retry timeout fires: setTimeout(initViz, 50).
RetryFires ==
    \E g \in retryTimers :
        /\ initViz(g)
        /\ UNCHANGED <<dataVars, viewVars, dragVars, initFailed, width, mounted, effectGen, rafPending,
                       resizeTimers, resizeTimeout, sinceResize, burst, threw>>

\* Cleanup of the init effect (cancelAnimationFrame, destroy) followed by
\* cleanup of the resize effect (removeEventListener, clearTimeout).
Cleanups ==
    /\ SetSurface(DestroyCurrent(CurrentSurface, vizRef))
    /\ resizeTimers' = resizeTimers \ {resizeTimeout}
    /\ resizeTimeout' = 0
    /\ sinceResize' = 0
    /\ burst' = NoBurst
    /\ destroyed' = (destroyed \/ vizRef.kind # "null")

\* A dependency of the two effects changes: both cleanups run, then both
\* effects run again (a new animation frame, a new resize listener).
DepsChange ==
    /\ mounted
    /\ effectGen < MaxGens
    /\ Cleanups
    /\ effectGen' = effectGen + 1
    /\ rafPending' = {effectGen + 1}
    /\ UNCHANGED <<dataVars, viewVars, dragVars, initFailed, retryTimeout, width, vizRef, mounted, retryTimers, threw>>

\* The component unmounts: both cleanups run.
Unmount ==
    /\ mounted
    /\ Cleanups
    /\ mounted' = FALSE
    /\ rafPending' = {}
    /\ UNCHANGED <<dataVars, viewVars, dragVars, initFailed, retryTimeout, width, vizRef, effectGen, retryTimers, threw>>

\* window 'resize': debouncedResize.
ResizeEvent ==
    /\ mounted
    /\ burst.events < MaxBurst
    /\ ~(resizeTimers # {} /\ sinceResize = DebounceUnits)
    /\ LET timer == burst.events + 1
       IN  /\ resizeTimers' = DebouncedTimers(resizeTimers, resizeTimeout, timer)
           /\ resizeTimeout' = timer
    /\ sinceResize' = 0
    /\ burst' = [events |-> burst.events + 1,
                 rebuilds |-> IF burst.events = 0 THEN 0 ELSE burst.rebuilds,
                 served |-> burst.served]
    /\ UNCHANGED <<dataVars, viewVars, dragVars, initFailed, retryTimeout, destroyed, width, created, running, attached, vizRef, mounted,
                   effectGen, rafPending, retryTimers, threw>>

\* 50 ms pass while a resize timeout is pending and not yet due.
Advance ==
    /\ resizeTimers # {}
    /\ sinceResize < DebounceUnits
    /\ sinceResize' = sinceResize + 1
    /\ UNCHANGED <<dataVars, viewVars, dragVars, initFailed, retryTimeout, destroyed, width, created, running, attached, vizRef, mounted,
                   effectGen, rafPending, retryTimers, resizeTimers,
                   resizeTimeout, burst, threw>>

\* A resize timeout is due: handleResize.
ResizeFires ==
    \E timer \in resizeTimers :
        /\ sinceResize = DebounceUnits
        /\ resizeTimers' = resizeTimers \ {timer}
        /\ sinceResize' = IF resizeTimers' = {} THEN 0 ELSE sinceResize
        /\ IF mounted /\ vizRef.kind # "null"
           THEN /\ width = 0 \/ created < MaxInstances
                /\ LET cleared == DestroySurface(CurrentSurface, vizRef)
                   IN  /\ vizRef' = CreateHandle(cleared, width)
                       /\ SetSurface(CreateSurface(cleared, width))
                /\ destroyed' = FALSE
                /\ burst' = [events |-> 0, rebuilds |-> burst.rebuilds + 1,
                             served |-> burst.events]
           ELSE /\ burst' = [events |-> 0, rebuilds |-> burst.rebuilds,
                             served |-> burst.served]
                /\ UNCHANGED <<vizRef, running, attached, created, destroyed>>
        /\ UNCHANGED <<dataVars, viewVars, dragVars, initFailed, retryTimeout, width, mounted, effectGen, rafPending,
                       retryTimers, resizeTimeout, threw>>

\* The layout gives the container another width.
SetWidth ==
    \E w \in 0..MaxWidth :
        /\ w # width
        /\ width' = w
        /\ UNCHANGED <<dataVars, viewVars, dragVars, initFailed, retryTimeout, destroyed, created, running, attached, vizRef, mounted,
                       effectGen, rafPending, retryTimers, resizeTimers,
                       resizeTimeout, sinceResize, burst, threw>>

\* A force simulation cools below alphaMin and stops its timer.
Settle ==
    \E inst \in running :
        /\ running' = running \ {inst}
        /\ UNCHANGED <<dataVars, viewVars, dragVars, initFailed, retryTimeout, destroyed, width, created, attached, vizRef, mounted,
                       effectGen, rafPending, retryTimers, resizeTimers,
                       resizeTimeout, sinceResize, burst, threw>>

\* handleZoomIn, handleZoomOut, handleZoomReset (buttons and the keys
\* + - 0): if (vizRef.current) vizRef.current.<op>(). Calling a property
\* the handle does not have throws a TypeError.
ZoomControl ==
    \E op \in {"zoomIn", "zoomOut", "zoomToFit"} :
        /\ mounted
        /\ threw' = (threw \/ (vizRef.kind # "null" /\ op \notin HandleOps(vizRef)))
        /\ UNCHANGED <<dataVars, viewVars, dragVars, initFailed, retryTimeout, destroyed, width, created, running, attached, vizRef,
                       mounted, effectGen, rafPending, retryTimers, resizeTimers,
                       resizeTimeout, sinceResize, burst>>

\* handleResetSimulation (button and the key r):
\* if (vizRef.current) vizRef.current.resetSimulation(), which is
\* simulation.alpha(1).restart().
ResetControl ==
    /\ mounted
    /\ threw' = (threw \/ (vizRef.kind # "null" /\ "resetSimulation" \notin HandleOps(vizRef)))
    /\ running' = IF vizRef.kind = "full" THEN running \cup {vizRef.inst} ELSE running
    /\ UNCHANGED <<dataVars, viewVars, dragVars, initFailed, retryTimeout, destroyed, width, created, attached, vizRef, mounted, effectGen,
                   rafPending, retryTimers, resizeTimers, resizeTimeout,
                   sinceResize, burst>>

----------------------------------------------------------------------------
(* The force simulation and the drag handlers of one visualization.        *)
(* alpha and alphaTarget are in hundredths. A position stands for the pair  *)
(* (x, y), a pin for (fx, fy). The decay of alpha towards alphaTarget is    *)
(* taken in strides: 1, then 0.3, then below alphaMin.                      *)

AlphaMax == 100         \* simulation.alpha(1)
DragTarget == 30        \* simulation.alphaTarget(0.3)
NoPin == -1             \* d.fx = null

\* Pointers that can hold a drag gesture at the same time (mouse or touches).
Pointers == {1, 2}

\* d3.forceSimulation(nodes): alpha 1, alphaTarget 0, timer started.
NewSimulation(n) ==
    [alpha |-> AlphaMax, alphaTarget |-> 0, stepping |-> TRUE,
     x |-> [i \in 1..n |-> 0], fx |-> [i \in 1..n |-> NoPin]]

\* No visualization: no simulation, no gesture.
NoSimulation == [alpha |-> 0, alphaTarget |-> 0, stepping |-> FALSE, x |-> <<>>, fx |-> <<>>]

IdleDrag ==
    /\ simulation = NoSimulation
    /\ gestures = [p \in Pointers |-> 0]

\* event.active: the number of active drag gestures other than the one the
\* event belongs to.
ActiveGestures(g) == Cardinality({p \in Pointers : g[p] # 0})

\* alpha += (alphaTarget - alpha) * alphaDecay, one stride
Cool(alpha, alphaTarget) ==
    IF alphaTarget > 0 THEN alphaTarget
    ELSE IF alpha = AlphaMax THEN DragTarget ELSE 0

\* function dragstarted(event, d)
dragstarted(sim, active, n) ==
    LET heated == IF active = 0
                  THEN [sim EXCEPT !.alphaTarget = DragTarget, !.stepping = TRUE]
                  ELSE sim
    IN  [heated EXCEPT !.fx[n] = sim.x[n]]

\* function dragged(event, d)
dragged(sim, n, eventX) == [sim EXCEPT !.fx[n] = eventX]

\* function dragended(event, d)
dragended(sim, active, n) ==
    LET cooled == IF active = 0 THEN [sim EXCEPT !.alphaTarget = 0] ELSE sim
    IN  [cooled EXCEPT !.fx[n] = NoPin]

\* resetSimulation re-creating the layout.
resetSimulationFresh(sim) == NewSimulation(Len(sim.x))

\* resetSimulation: () => { simulation.alpha(1).restart(); }
resetSimulation(sim) == [sim EXCEPT !.alpha = AlphaMax, !.stepping = TRUE]

\* A pointer goes down on node n: d3-drag starts a gesture.
DragStart ==
    \E p \in Pointers, n \in DOMAIN simulation.x :
        /\ gestures[p] = 0
        /\ simulation' = dragstarted(simulation, ActiveGestures(gestures), n)
        /\ gestures' = [gestures EXCEPT ![p] = n]
        /\ UNCHANGED <<dataVars, lifeVars, viewVars>>

\* A pointer that is down moves to position eventX.
DragMove ==
    \E p \in Pointers, eventX \in 0..MaxPos :
        /\ gestures[p] # 0
        /\ simulation' = dragged(simulation, gestures[p], eventX)
        /\ UNCHANGED <<dataVars, lifeVars, viewVars, gestures>>

\* A pointer that is down goes up: its gesture ends.
DragEnd ==
    \E p \in Pointers :
        /\ gestures[p] # 0
        /\ gestures' = [gestures EXCEPT ![p] = 0]
        /\ simulation' = dragended(simulation, ActiveGestures(gestures'), gestures[p])
        /\ UNCHANGED <<dataVars, lifeVars, viewVars>>

\* One step of the simulation timer: alpha decays towards alphaTarget, the
\* timer stops below alphaMin, a pinned node is put at its pin and the
\* forces move the other nodes.
Step ==
    \E x \in [DOMAIN simulation.x -> 0..MaxPos] :
        /\ simulation.stepping
        /\ \A n \in DOMAIN x : simulation.fx[n] # NoPin => x[n] = simulation.fx[n]
        /\ LET alpha == Cool(simulation.alpha, simulation.alphaTarget)
           IN  simulation' = [simulation EXCEPT !.alpha = alpha, !.stepping = alpha > 0,
                                                !.x = x]
        /\ UNCHANGED <<dataVars, lifeVars, viewVars, gestures>>

\* The restart-layout operation of the handle.
RestartLayout ==
    /\ simulation' = resetSimulation(simulation)
    /\ UNCHANGED <<dataVars, lifeVars, viewVars, gestures>>

----------------------------------------------------------------------------
(* Semantic zoom, hover and selection of one visualization.                *)
(* Zoom scales are in thousandths (0.85 is 850). A d3 transition is taken   *)
(* at its end value: the events of the model are further apart than the    *)
(* 150 ms the transitions last.                                             *)

initialScale == 850     \* const initialScale = 0.85
ABSTRACT == 450         \* ZOOM_LEVELS.ABSTRACT
MINIMAL == 700          \* ZOOM_LEVELS.MINIMAL
DETAILED == 1500        \* ZOOM_LEVELS.DETAILED
FULL == 2200            \* ZOOM_LEVELS.FULL
ZoomSlack == 50         \* Math.abs(event.transform.k - currentZoomScale) > 0.05
MinScale == 200         \* scaleExtent([0.2, 4])
MaxScale == 4000

\* selectedMethodId = null
NoId == <<>>

\* The transform scales a zoom event can carry: the ends of the scale
\* extent, the initial scale and scales at and around every band threshold.
ZoomScales ==
    {MinScale, 430, ABSTRACT, 480, 690, MINIMAL, initialScale, 880,
     1460, DETAILED, 1520, 2180, FULL, 2260, MaxScale}

getZoomLevelName(scale) ==
    IF scale < ABSTRACT THEN "Abstract"
    ELSE IF scale < MINIMAL THEN "Minimal"
    ELSE IF scale < DETAILED THEN "Normal"
    ELSE IF scale < FULL THEN "Detailed"
    ELSE "Full Detail"

\* Math.round(scale * 100), the number shown before the percent sign.
ZoomPercent(scale) == (scale + 5) \div 10

\* The band flags with isMinimal starting above the Abstract threshold.
ZoomFlagsGap(scale) ==
    [isAbstract |-> scale < ABSTRACT,
     isMinimal |-> scale > ABSTRACT /\ scale < MINIMAL,
     isNormal |-> scale >= MINIMAL /\ scale < DETAILED,
     isDetailed |-> scale >= DETAILED /\ scale < FULL,
     isFull |-> scale >= FULL]

\* const isAbstract = ...; ... const isFull = ...
ZoomFlags(scale) ==
    [isAbstract |-> scale < ABSTRACT,
     isMinimal |-> scale >= ABSTRACT /\ scale < MINIMAL,
     isNormal |-> scale >= MINIMAL /\ scale < DETAILED,
     isDetailed |-> scale >= DETAILED /\ scale < FULL,
     isFull |-> scale >= FULL]

\* r of .node-circle as a percentage of nodeRadius(d)
RadiusFor(flags) ==
    IF flags.isAbstract THEN 60 ELSE IF flags.isMinimal THEN 80 ELSE 100

\* stroke-width of .node-circle
CircleStrokeFor(flags) == IF flags.isAbstract THEN 1 ELSE 2

LinkOpacityFor(flags) ==
    IF flags.isAbstract THEN 20 ELSE IF flags.isMinimal THEN 40 ELSE 60

LinkWidthFor(flags, strokeWidth) ==
    IF flags.isAbstract THEN 50
    ELSE IF flags.isMinimal THEN (strokeWidth * 7) \div 10
    ELSE strokeWidth

\* updateDetailCards(isDetailed, isFull): the cards are removed and, in the
\* two inner bands, added again with the band's content.
CardsFor(flags) ==
    IF flags.isFull THEN "full" ELSE IF flags.isDetailed THEN "detailed" ELSE "none"

\* RELATIONSHIP_TYPES[type].strokeWidth, in hundredths of a pixel
StrokeWidthOf(type) ==
    CASE type = "explicit" -> 250
      [] type = "sameStep" -> 100
      [] OTHER -> 150

\* links.some(...): the graph has a link between the nodes with these ids.
IsConnected(g, id1, id2) ==
    \E k \in DOMAIN g.links :
        \/ g.links[k].source = id1 /\ g.links[k].target = id2
        \/ g.links[k].target = id1 /\ g.links[k].source = id2

\* opacity given to node n when the node with id focus is hovered or selected
FocusOpacity(g, focus, n) ==
    IF g.nodes[n].id = focus THEN 100
    ELSE IF IsConnected(g, focus, g.nodes[n].id) THEN 100 ELSE 30

\* The drawing as createRelationshipGraph leaves it (entry animations
\* over): every circle at nodeRadius with the surface stroke, the selected
\* node with glow and accent outline, the nodes away from the selection
\* dimmed, every link at opacity 0.6 with its type's width.
InitialCircles(g, selected) ==
    [n \in DOMAIN g.nodes |->
        IF selected # NoId /\ g.nodes[n].id = selected
        THEN [r |-> 100, filter |-> "glow", stroke |-> "accent", strokeWidth |-> 3]
        ELSE [r |-> 100, filter |-> "none", stroke |-> "surface", strokeWidth |-> 2]]

InitialNodeOpacity(g, selected) ==
    [n \in DOMAIN g.nodes |->
        IF selected = NoId THEN 100 ELSE FocusOpacity(g, selected, n)]

InitialLinkStyle(g) ==
    [k \in DOMAIN g.links |->
        [opacity |-> 60, width |-> StrokeWidthOf(g.links[k].type)]]

NoSnapshot == [valid |-> FALSE, circles |-> <<>>, nodeOpacity |-> <<>>, linkStyle |-> <<>>]

NotApplied == [called |-> FALSE, scale |-> initialScale, bands |-> {}, radius |-> 100]

\* The view of the specifications that drive no visualization.
IdleView ==
    /\ selectedMethodId = NoId
    /\ zoomK = initialScale
    /\ currentZoomScale = initialScale
    /\ zoomIndicator = [level |-> "Normal", percent |-> 85]
    /\ zoomHint = "shown"
    /\ detailCards = "none"
    /\ circles = <<>>
    /\ nodeOpacity = <<>>
    /\ linkStyle = <<>>
    /\ hovered = 0
    /\ applied = NotApplied
    /\ snapshot = NoSnapshot

\* function updateSemanticZoom(scale)
updateSemanticZoom(scale) ==
    LET flags == ZoomFlags(scale)
    IN  /\ currentZoomScale' = scale
        /\ zoomIndicator' = [level |-> getZoomLevelName(scale),
                             percent |-> ZoomPercent(scale)]
        /\ zoomHint' = IF scale = initialScale THEN "shown" ELSE "hidden"
        /\ circles' = [n \in DOMAIN circles |->
                          [circles[n] EXCEPT !.r = RadiusFor(flags),
                                             !.strokeWidth = CircleStrokeFor(flags)]]
        /\ linkStyle' = [k \in DOMAIN linkStyle |->
                            [opacity |-> LinkOpacityFor(flags),
                             width |-> LinkWidthFor(flags, StrokeWidthOf(graph.links[k].type))]]
        /\ detailCards' = CardsFor(flags)
        /\ applied' = [called |-> TRUE, scale |-> scale,
                       bands |-> {b \in DOMAIN flags : flags[b]},
                       radius |-> RadiusFor(flags)]

\* The 'zoom' listener: a wheel step or a frame of the transition started by
\* zoomIn, zoomOut or zoomToFit moves the transform to scale k.
ZoomEvent ==
    \E k \in ZoomScales :
        /\ zoomK' = k
        /\ IF Abs(k - currentZoomScale) > ZoomSlack
           THEN /\ updateSemanticZoom(k)
                /\ snapshot' = NoSnapshot
           ELSE UNCHANGED <<currentZoomScale, zoomIndicator, zoomHint, circles, linkStyle,
                            detailCards, applied, snapshot>>
        /\ UNCHANGED <<dataVars, lifeVars, dragVars, selectedMethodId, nodeOpacity, hovered>>

\* node.on('mouseenter', ...)
HoverEnter ==
    \E n \in DOMAIN graph.nodes :
        /\ hovered = 0
        /\ hovered' = n
        /\ snapshot' = [valid |-> TRUE, circles |-> circles,
                        nodeOpacity |-> nodeOpacity, linkStyle |-> linkStyle]
        /\ circles' = [circles EXCEPT ![n].r = 130, ![n].filter = "glow"]
        /\ linkStyle' = [k \in DOMAIN linkStyle |->
                            LET strokeWidth == StrokeWidthOf(graph.links[k].type)
                            IN  IF graph.nodes[n].id \in {graph.links[k].source,
                                                          graph.links[k].target}
                                THEN [opacity |-> 100, width |-> (strokeWidth * 15) \div 10]
                                ELSE [opacity |-> 15, width |-> strokeWidth]]
        /\ nodeOpacity' = [m \in DOMAIN nodeOpacity |->
                              FocusOpacity(graph, graph.nodes[n].id, m)]
        /\ UNCHANGED <<dataVars, lifeVars, dragVars, selectedMethodId, zoomK, currentZoomScale,
                       zoomIndicator, zoomHint, detailCards, applied>>

\* node.on('mouseleave', ...)
HoverExit ==
    /\ hovered # 0
    /\ hovered' = 0
    /\ snapshot' = NoSnapshot
    /\ circles' = [circles EXCEPT ![hovered].r = 100, ![hovered].filter = "none"]
    /\ linkStyle' = [k \in DOMAIN linkStyle |->
                        [opacity |-> 60, width |-> StrokeWidthOf(graph.links[k].type)]]
    /\ nodeOpacity' = [m \in DOMAIN nodeOpacity |-> 100]
    /\ UNCHANGED <<dataVars, lifeVars, dragVars, selectedMethodId, zoomK, currentZoomScale,
                   zoomIndicator, zoomHint, detailCards, applied>>

\* Link options createRelationshipGraph passes to buildGraphData.
GraphLinkOptions ==
    [DefaultOptions EXCEPT !.similarityThreshold = 30, !.maxSimilarLinks = 4]

\* Catalogs drawn: three methods, the first of step s1, the third unlike
\* the others; only the first may list related ids.
ViewCatalogs ==
    {c \in Catalogs :
        /\ Len(c) = 3
        /\ c[1].pipeline_step = "s1" /\ c[3].pipeline_step = "sx"
        /\ c[2].related_method_ids = <<>> /\ c[3].related_method_ids = <<>>}

InitView ==
    /\ methods \in ViewCatalogs
    /\ pipelineSteps = Steps
    /\ options = GraphLinkOptions
    /\ phase = "built"
    /\ score = <<>>
    /\ graph = buildGraphData(methods, pipelineSteps, options)
    /\ clusters = <<>>
    /\ IdleLife
    /\ selectedMethodId \in {NoId} \cup {methods[i].id : i \in DOMAIN methods}
    /\ zoomK = initialScale
    /\ currentZoomScale = initialScale
    /\ zoomIndicator = [level |-> "Normal", percent |-> 85]
    /\ zoomHint = "shown"
    /\ detailCards = "none"
    /\ circles = InitialCircles(graph, selectedMethodId)
    /\ nodeOpacity = InitialNodeOpacity(graph, selectedMethodId)
    /\ linkStyle = InitialLinkStyle(graph)
    /\ hovered = 0
    /\ applied = NotApplied
    /\ snapshot = NoSnapshot
    /\ IdleDrag

NextView == ZoomEvent \/ HoverEnter \/ HoverExit

SpecView == InitView /\ [][NextView]_vars

\* One visualization of two methods, the first of which lists the second,
\* with its simulation, drag handlers, restart-layout operation and zoom
\* listener.
DragCatalogs ==
    {<<Record(MethodId(1), "s1", <<"text">>, <<"k">>, <<>>, "m1", "e1", <<MethodId(2)>>),
       Record(MethodId(2), step, <<"text">>, <<"k">>, <<>>, "m1", "e1", <<>>)>> :
        step \in {"s1", "s2"}}

InitDrag ==
    /\ methods \in DragCatalogs
    /\ pipelineSteps = Steps
    /\ options = GraphLinkOptions
    /\ phase = "built"
    /\ score = <<>>
    /\ graph = buildGraphData(methods, pipelineSteps, options)
    /\ clusters = <<>>
    /\ IdleLife
    /\ selectedMethodId = NoId
    /\ zoomK = initialScale
    /\ currentZoomScale = initialScale
    /\ zoomIndicator = [level |-> "Normal", percent |-> 85]
    /\ zoomHint = "shown"
    /\ detailCards = "none"
    /\ circles = InitialCircles(graph, selectedMethodId)
    /\ nodeOpacity = InitialNodeOpacity(graph, selectedMethodId)
    /\ linkStyle = InitialLinkStyle(graph)
    /\ hovered = 0
    /\ applied = NotApplied
    /\ snapshot = NoSnapshot
    /\ simulation = NewSimulation(Len(graph.nodes))
    /\ gestures = [p \in Pointers |-> 0]

NextDrag == DragStart \/ DragMove \/ DragEnd \/ Step \/ RestartLayout \/ ZoomEvent

SpecDrag == InitDrag /\ [][NextDrag]_vars

----------------------------------------------------------------------------
(* The wrapper's specification.                                            *)

IdleData ==
    /\ methods = <<>>
    /\ pipelineSteps = Steps
    /\ options = DefaultOptions
    /\ phase = "input"
    /\ score = <<>>
    /\ graph = NoGraph
    /\ clusters = <<>>

Init == IdleData /\ InitLife /\ IdleView /\ IdleDrag

Next ==
    \/ RafFires
    \/ RetryFires
    \/ DepsChange
    \/ Unmount
    \/ ResizeEvent
    \/ Advance
    \/ ResizeFires
    \/ SetWidth
    \/ Settle
    \/ ZoomControl
    \/ ResetControl

Spec == Init /\ [][Next]_vars

\* The wrapper with its callbacks scheduled fairly: the browser runs a
\* requested animation frame and fires a pending timeout.
SpecRetry ==
    /\ Init
    /\ [][Next]_vars
    /\ WF_vars(RafFires)
    /\ WF_vars(RetryFires)

----------------------------------------------------------------------------
(* createRelationshipGraph throwing partway.                               *)

\* The places of createRelationshipGraph after which the exception is
\* raised: after the SVG is appended (line 417) or after the force
\* simulation is created (line 869, e.g. getBBox of the label sizing).
ThrowPoints == {"svg", "simulation"}

\* The surface after createRelationshipGraph threw at the given point on a
\* container of non-zero width: the container was cleared, the new SVG is
\* attached and, past the second point, the new simulation is running.
\* The function has no try / catch / finally.
ThrowSurface(surface, point) ==
    Surface(IF point = "simulation"
            THEN surface.running \cup {surface.created + 1}
            ELSE surface.running,
            surface.created + 1, surface.created + 1)

\* initViz of effect run g (animation frame or retry timeout) when
\* createRelationshipGraph throws: vizRef.current is not assigned and the
\* exception leaves the callback.
InitVizThrows ==
    \E g \in rafPending \cup retryTimers, point \in ThrowPoints :
        /\ mounted /\ width > 0
        /\ created < MaxInstances
        /\ rafPending' = rafPending \ {g}
        /\ retryTimers' = retryTimers \ {g}
        /\ retryTimeout' = ClearedTimeout(retryTimers \ {g}, retryTimeout)
        /\ SetSurface(ThrowSurface(CurrentSurface, point))
        /\ initFailed' = initFailed \cup {created + 1}
        /\ threw' = TRUE
        /\ UNCHANGED <<dataVars, viewVars, dragVars, width, vizRef, mounted, effectGen,
                       resizeTimers, resizeTimeout, sinceResize, burst,
                       destroyed>>

\* handleResize when createRelationshipGraph throws after
\* vizRef.current.destroy(): vizRef.current keeps the destroyed handle.
ResizeThrows ==
    \E timer \in resizeTimers, point \in ThrowPoints :
        /\ sinceResize = DebounceUnits
        /\ mounted /\ vizRef.kind # "null" /\ width > 0
        /\ created < MaxInstances
        /\ resizeTimers' = resizeTimers \ {timer}
        /\ sinceResize' = IF resizeTimers' = {} THEN 0 ELSE sinceResize
        /\ SetSurface(ThrowSurface(DestroySurface(CurrentSurface, vizRef), point))
        /\ initFailed' = initFailed \cup {created + 1}
        /\ threw' = TRUE
        /\ burst' = [events |-> 0, rebuilds |-> burst.rebuilds + 1,
                     served |-> burst.events]
        /\ destroyed' = TRUE
        /\ UNCHANGED <<dataVars, viewVars, dragVars, width, vizRef, mounted, effectGen,
                       rafPending, retryTimers, resizeTimeout, retryTimeout>>

NextFailure == Next \/ InitVizThrows \/ ResizeThrows

SpecFailure == Init /\ [][NextFailure]_vars

----------------------------------------------------------------------------
(* Drivers of the pure functions.                                          *)

InitSim ==
    /\ methods \in {<<m1, m2>> : m1 \in SimFirst, m2 \in SimSecond}
    /\ pipelineSteps = Steps
    /\ options = DefaultOptions
    /\ phase = "input"
    /\ score = <<>>
    /\ graph = NoGraph
    /\ clusters = <<>>
    /\ IdleLife
    /\ IdleView
    /\ IdleDrag

\* calculateSimilarity applied to every ordered pair of the two records.
Score ==
    /\ phase = "input"
    /\ score' = [p \in (DOMAIN methods) \X (DOMAIN methods) |->
                    calculateSimilarity(methods[p[1]], methods[p[2]], pipelineSteps)]
    /\ phase' = "scored"
    /\ UNCHANGED <<methods, pipelineSteps, options, graph, clusters, lifeVars, viewVars, dragVars>>

NextSim == Score

SpecSim == InitSim /\ [][NextSim]_vars

InitGraph ==
    /\ methods \in Catalogs
    /\ pipelineSteps = Steps
    /\ options \in OptionSets
    /\ phase = "input"
    /\ score = <<>>
    /\ graph = NoGraph
    /\ clusters = <<>>
    /\ IdleLife
    /\ IdleView
    /\ IdleDrag

\* createRelationshipGraph builds the graph once per (catalog, options).
Build ==
    /\ phase = "input"
    /\ graph' = buildGraphData(methods, pipelineSteps, options)
    /\ phase' = "built"
    /\ UNCHANGED <<methods, pipelineSteps, options, score, clusters, lifeVars, viewVars, dragVars>>

\* The simulation's tick handler recomputes the cluster regions.
Tick ==
    /\ phase = "built"
    /\ clusters' = computeClusterHulls(graph.nodes, pipelineSteps)
    /\ phase' = "ticked"
    /\ UNCHANGED <<methods, pipelineSteps, options, score, graph, lifeVars, viewVars, dragVars>>

NextGraph == Build \/ Tick

SpecGraph == InitGraph /\ [][NextGraph]_vars

InitScenario ==
    /\ methods \in ScenarioCatalogs
    /\ pipelineSteps = Steps
    /\ options \in OptionSets
    /\ phase = "input"
    /\ score = <<>>
    /\ graph = NoGraph
    /\ clusters = <<>>
    /\ IdleLife
    /\ IdleView
    /\ IdleDrag

SpecScenario == InitScenario /\ [][NextGraph]_vars

(* Catalogs over arbitrary string identifiers: the ids are distinct strings *)
(* of which two contain the separator of the link key. Every method lists   *)
(* no related id or one id of the pool (its own included).                  *)
IdPool == {<<"a">>, <<"c">>, <<"a", "-", "-", "b">>, <<"b", "-", "-", "c">>}

IdRecord(id, related) ==
    Record(id, "s1", <<"text">>, <<"k">>, <<>>, "m1", "e1", related)

IdCatalogs(pool) ==
    LET relatedLists == {<<>>} \cup {<<r>> : r \in pool}
        idLists == {ids \in SeqsUpTo(pool, Cardinality(pool)) :
                       /\ Len(ids) >= 2
                       /\ \A i, j \in DOMAIN ids : i # j => ids[i] # ids[j]}
    IN  UNION {{[i \in DOMAIN ids |-> IdRecord(ids[i], rel[i])] :
                    rel \in [DOMAIN ids -> relatedLists]} : ids \in idLists}

IdOptions ==
    {[DefaultOptions EXCEPT !.showExplicitRelations = e] : e \in BOOLEAN}

InitIds ==
    /\ methods \in IdCatalogs(IdPool)
    /\ pipelineSteps = Steps
    /\ options \in IdOptions
    /\ phase = "input"
    /\ score = <<>>
    /\ graph = NoGraph
    /\ clusters = <<>>
    /\ IdleLife
    /\ IdleView
    /\ IdleDrag

SpecIds == InitIds /\ [][NextGraph]_vars

----------------------------------------------------------------------------
(* Properties of the similarity scorer (SpecSim).                          *)

\* C2: calculateSimilarity(a, b, steps) = calculateSimilarity(b, a, steps)
\* for all records a and b whose modality, task and tag lists are arbitrary
\* finite lists.
SimilaritySymmetric ==
    phase = "scored" => score[<<1, 2>>] = score[<<2, 1>>]

\* C3: calculateSimilarity is 0 when the two ids are equal and otherwise
\* lies between 0 and 1 (100 hundredths) inclusive.
SimilarityRange ==
    phase = "scored" =>
        \A p \in DOMAIN score :
            /\ methods[p[1]].id = methods[p[2]].id => score[p] = 0
            /\ 0 <= score[p] /\ score[p] <= 100

\* C3 witness: two records with different ids whose unclamped sum exceeds 1
\* were scored 1, and the first record, which shares elements with itself,
\* was scored 0 against itself.
SimilarityRangeWitness ==
    /\ phase = "scored"
    /\ methods[1].id # methods[2].id
    /\ RawSimilarity(methods[1], methods[2], pipelineSteps) > 100
    /\ score[<<1, 2>>] = 100
    /\ RawSimilarity(methods[1], methods[1], pipelineSteps) > 0
    /\ score[<<1, 1>>] = 0

----------------------------------------------------------------------------
(* Properties of the graph builder (SpecGraph).                            *)

Built == phase \in {"built", "ticked"}

NodeIds == {graph.nodes[i].id : i \in DOMAIN graph.nodes}

Endpoints(link) == {link.source, link.target}

\* Links of the built graph incident to the node id.
Incident(id) == {k \in DOMAIN graph.links : id \in Endpoints(graph.links[k])}

\* The method records i and j list each other / i lists j.
Lists(i, j) == \E k \in DOMAIN methods[i].related_method_ids :
                    methods[i].related_method_ids[k] = methods[j].id

\* C1: the built graph has at most one edge between any unordered pair of
\* node identifiers.
NoDuplicateEdges ==
    Built =>
        \A k, l \in DOMAIN graph.links :
            k # l => Endpoints(graph.links[k]) # Endpoints(graph.links[l])

\* C1 witness: two methods list each other, the same-step and the
\* similarity rule apply to the pair as well, every stage that applies is
\* enabled, and the pair has its edge.
NoDuplicateEdgesWitness ==
    /\ Built
    /\ options.showExplicitRelations /\ options.showSameStepLinks
    /\ options.showSimilarMethods
    /\ \E i, j \in DOMAIN methods :
        /\ i # j /\ Lists(i, j) /\ Lists(j, i)
        /\ methods[i].pipeline_step = methods[j].pipeline_step
        /\ methods[i].pipeline_step = "s1"
        /\ calculateSimilarity(methods[i], methods[j], pipelineSteps)
              >= options.similarityThreshold
        /\ \E k \in DOMAIN graph.links :
              Endpoints(graph.links[k]) = {methods[i].id, methods[j].id}

\* C4: every node has at most maxSimilarLinks incident edges of type
\* 'similar'.
SimilarCap ==
    Built =>
        \A id \in NodeIds :
            Cardinality({k \in Incident(id) : graph.links[k].type = "similar"})
                <= options.maxSimilarLinks

\* C4 witness: a node has reached the cap, and a pair containing it whose
\* similarity reaches the threshold was left without an edge.
SimilarCapWitness ==
    /\ Built
    /\ options.showSimilarMethods
    /\ \E i, j \in DOMAIN methods :
        /\ i # j
        /\ calculateSimilarity(methods[i], methods[j], pipelineSteps)
              >= options.similarityThreshold
        /\ \A k \in DOMAIN graph.links :
              Endpoints(graph.links[k]) # {methods[i].id, methods[j].id}
        /\ Cardinality({k \in Incident(methods[i].id) :
                            graph.links[k].type = "similar"})
              = options.maxSimilarLinks

\* C5: every node's stored degree is the number of edges whose source it is
\* plus the number of edges whose target it is.
DegreeConsistent ==
    Built =>
        \A i \in DOMAIN graph.nodes :
            graph.nodes[i].degree =
                Cardinality({k \in DOMAIN graph.links :
                                graph.links[k].source = graph.nodes[i].id})
                + Cardinality({k \in DOMAIN graph.links :
                                graph.links[k].target = graph.nodes[i].id})

\* C5 witness: a built graph with a node of degree 2 that is the source of
\* one edge and the target of another.
DegreeConsistentWitness ==
    /\ Built
    /\ \E i \in DOMAIN graph.nodes :
        /\ graph.nodes[i].degree = 2
        /\ \E k, l \in DOMAIN graph.links :
              /\ graph.links[k].source = graph.nodes[i].id
              /\ graph.links[l].target = graph.nodes[i].id

\* C10: with a stale related id in the catalog the build completes, no edge
\* has the stale id as an endpoint, and every edge endpoint is a node id.
StaleTolerant ==
    Built =>
        \A k \in DOMAIN graph.links :
            /\ Endpoints(graph.links[k]) \subseteq NodeIds
            /\ StaleId \notin Endpoints(graph.links[k])

\* C10 witness: a method lists the stale id and a known id, explicit
\* relations are enabled, and the edge to the known id was built.
StaleTolerantWitness ==
    /\ Built
    /\ options.showExplicitRelations
    /\ \E i \in DOMAIN methods :
        /\ StaleId \in Range(methods[i].related_method_ids)
        /\ \E k \in DOMAIN graph.links :
              /\ graph.links[k].type = "explicit"
              /\ graph.links[k].source = methods[i].id

----------------------------------------------------------------------------
(* Properties of the cluster regions (SpecGraph).                          *)

\* Regions of the last tick that hold the node.
RegionsOf(node) ==
    {k \in DOMAIN clusters : node \in Range(clusters[k].nodes)}

Resolves(stepId) == \E s \in DOMAIN pipelineSteps : pipelineSteps[s].id = stepId

\* C6 as stated: every node is in exactly one region, whose id is the
\* node's pipeline-step id, and no region is empty.
ClusterMembershipAll ==
    phase = "ticked" =>
        /\ \A i \in DOMAIN graph.nodes :
              /\ Cardinality(RegionsOf(graph.nodes[i])) = 1
              /\ \A k \in RegionsOf(graph.nodes[i]) :
                    clusters[k].id = graph.nodes[i].pipelineStep
        /\ \A k \in DOMAIN clusters : Len(clusters[k].nodes) > 0

\* C6 amended: every node whose pipeline-step id is the id of a step of the
\* list is in exactly one region, whose id is that step id; a node whose
\* step id is the id of no step is in no region; no region is empty.
ClusterMembershipResolved ==
    phase = "ticked" =>
        /\ \A i \in DOMAIN graph.nodes :
              IF Resolves(graph.nodes[i].pipelineStep)
              THEN /\ Cardinality(RegionsOf(graph.nodes[i])) = 1
                   /\ \A k \in RegionsOf(graph.nodes[i]) :
                         clusters[k].id = graph.nodes[i].pipelineStep
              ELSE RegionsOf(graph.nodes[i]) = {}
        /\ \A k \in DOMAIN clusters : Len(clusters[k].nodes) > 0

\* C6 witness: after a tick, a region holds two nodes and a third node has
\* a step id that is the id of no step.
ClusterMembershipWitness ==
    /\ phase = "ticked"
    /\ \E k \in DOMAIN clusters : Len(clusters[k].nodes) = 2
    /\ \E i \in DOMAIN graph.nodes : ~Resolves(graph.nodes[i].pipelineStep)

----------------------------------------------------------------------------
(* Properties of the stages (SpecGraph, SpecScenario).                     *)

\* C11: every edge of the built graph has a strength greater than 0 and at
\* most 1 (100 hundredths).
StrengthRange ==
    Built =>
        \A k \in DOMAIN graph.links :
            0 < graph.links[k].strength /\ graph.links[k].strength <= 100

StageOrder == <<"explicit", "sameStep", "sharedModality", "sharedTask", "similar">>

StageEnabled(stage) ==
    CASE stage = "explicit" -> options.showExplicitRelations
      [] stage = "sameStep" -> options.showSameStepLinks
      [] stage = "sharedModality" -> options.showSharedModalityLinks
      [] stage = "sharedTask" -> options.showSharedTaskLinks
      [] stage = "similar" -> options.showSimilarMethods

\* The rule of a stage applies to the methods at catalog positions i < j.
RuleApplies(stage, i, j) ==
    CASE stage = "explicit" -> Lists(i, j) \/ Lists(j, i)
      [] stage = "sameStep" ->
            /\ methods[i].pipeline_step = methods[j].pipeline_step
            /\ Resolves(methods[i].pipeline_step)
      [] stage = "sharedModality" ->
            /\ SharedCount(methods[i].modalities, methods[j].modalities) > 0
            /\ methods[i].pipeline_step # methods[j].pipeline_step
      [] stage = "sharedTask" ->
            /\ SharedCount(methods[i].tasks, methods[j].tasks) > 0
            /\ methods[i].pipeline_step # methods[j].pipeline_step
      [] stage = "similar" ->
            calculateSimilarity(methods[i], methods[j], pipelineSteps)
                >= options.similarityThreshold

\* The strength the rule of a stage gives the pair.
RuleStrength(stage, i, j) ==
    CASE stage = "explicit" -> 100
      [] stage = "sameStep" -> 30
      [] stage = "sharedModality" ->
            40 + 10 * SharedCount(methods[i].modalities, methods[j].modalities)
      [] stage = "sharedTask" ->
            30 + 15 * SharedCount(methods[i].tasks, methods[j].tasks)
      [] stage = "similar" ->
            calculateSimilarity(methods[i], methods[j], pipelineSteps)

\* Position in StageOrder of the earliest enabled stage whose rule applies
\* to the pair, 0 when there is none.
FirstStage(i, j) ==
    LET hits == {n \in DOMAIN StageOrder :
                    StageEnabled(StageOrder[n]) /\ RuleApplies(StageOrder[n], i, j)}
    IN  IF hits = {} THEN 0 ELSE CHOOSE n \in hits : \A m \in hits : n <= m

EdgesOf(i, j) ==
    {k \in DOMAIN graph.links :
        Endpoints(graph.links[k]) = {methods[i].id, methods[j].id}}

OnlyStage(stage) ==
    \A n \in DOMAIN StageOrder : StageEnabled(StageOrder[n]) <=> StageOrder[n] = stage

\* C19: a catalog of two methods of which at least one lists the other,
\* built with explicit relations alone, gives exactly one edge, of type
\* explicit with strength 1, and both nodes have degree 1.
ScenarioExplicitPair ==
    (/\ Built
     /\ Len(methods) = 2
     /\ Lists(1, 2) \/ Lists(2, 1)
     /\ OnlyStage("explicit"))
    => /\ Len(graph.links) = 1
       /\ graph.links[1].type = "explicit"
       /\ graph.links[1].strength = 100
       /\ Endpoints(graph.links[1]) = {methods[1].id, methods[2].id}
       /\ \A i \in DOMAIN graph.nodes : graph.nodes[i].degree = 1

\* C19 witness: the two methods list each other, each after a stale id, and
\* the one explicit edge was built.
ScenarioExplicitPairWitness ==
    /\ Built
    /\ Len(methods) = 2
    /\ Lists(1, 2) /\ Lists(2, 1)
    /\ StaleId \in Range(methods[1].related_method_ids)
    /\ OnlyStage("explicit")
    /\ Len(graph.links) = 1
    /\ graph.links[1].type = "explicit"

AllOneStep == \A i \in DOMAIN methods : methods[i].pipeline_step = methods[1].pipeline_step

SameStepComplete ==
    /\ 2 * Len(graph.links) = Len(methods) * (Len(methods) - 1)
    /\ \A k \in DOMAIN graph.links :
          graph.links[k].type = "sameStep" /\ graph.links[k].strength = 30

----------------------------------------------------------------------------
(* Properties of the wrapper's lifecycle (Spec).                           *)

\* C7: at no time are two force simulations running against the same
\* container.
SingleSimulation == Cardinality(running) <= 1

\* A resize timeout has just run handleResize (the step is not a cleanup,
\* which also ends a burst).
ResizeServed ==
    /\ burst.events > 0 /\ burst'.events = 0
    /\ effectGen' = effectGen /\ mounted' = mounted

\* C8: at most one rebuild request is pending at any moment; a burst of
\* resize events, each less than 150 ms after the previous one, gets no
\* rebuild before its last event and one rebuild when its timeout runs with
\* a visualization present, made for the container width at that time, the
\* previous simulation being stopped.
ResizeDebounce ==
    /\ [](/\ Cardinality(resizeTimers) <= 1
          /\ burst.rebuilds <= 1
          /\ burst.events > 0 => (resizeTimers # {} /\ burst.rebuilds = 0))
    /\ [][(ResizeServed /\ vizRef.kind # "null") =>
            /\ burst'.rebuilds = 1
            /\ resizeTimers' = {}
            /\ vizRef'.width = width
            /\ vizRef.kind = "full" => vizRef.inst \notin running'
            /\ width > 0 => (vizRef'.kind = "full" /\ vizRef'.inst = created + 1
                             /\ created' = created + 1
                             /\ vizRef'.inst \in running')]_vars

\* C8 witness: a burst of MaxBurst resize events was served by one rebuild
\* and the visualization it built is the current one.
ResizeDebounceWitness ==
    /\ burst.served = MaxBurst
    /\ burst.rebuilds = 1
    /\ burst.events = 0
    /\ vizRef.kind = "full"
    /\ vizRef.inst = 2
    /\ running = {2}

\* C9: the handle returned for a zero-width container offers zoom-in,
\* zoom-out, zoom-to-fit, restart-layout and destroy, and invoking them
\* raises no error.
DegenerateHandleSafe ==
    /\ vizRef.kind = "noop" =>
          {"zoomIn", "zoomOut", "zoomToFit", "resetSimulation", "destroy"}
              \subseteq HandleOps(vizRef)
    /\ ~threw

----------------------------------------------------------------------------
(* Properties of semantic zoom, hover and selection (SpecView).            *)

\* C13: detail cards are displayed exactly when the current zoom scale is
\* at or above the Detailed threshold (1.5).
DetailCardsMatchScale == (detailCards # "none") <=> (zoomK >= DETAILED)

\* C14: the indicator shows the band name and the percentage of the current
\* zoom scale.
IndicatorCurrent ==
    /\ zoomIndicator.level = getZoomLevelName(zoomK)
    /\ zoomIndicator.percent = ZoomPercent(zoomK)

\* C15: every updateSemanticZoom call sets every circle to the multiplier
\* of the scale it is called with: 0.6 below 0.45, 0.8 from 0.45 to below
\* 0.7 and 1.0 from 0.7 on; exactly one of the five band flags holds for
\* the call's scale and for every scale of the extent that is drawn; the
\* multiplier does not decrease from one scale to a larger one.
RadiusByBand ==
    /\ [](/\ applied.called =>
                /\ applied.scale < 450 => applied.radius = 60
                /\ (applied.scale >= 450 /\ applied.scale < 700) => applied.radius = 80
                /\ applied.scale >= 700 => applied.radius = 100
                /\ Cardinality(applied.bands) = 1
          /\ \A s1 \in ZoomScales :
                /\ Cardinality({b \in DOMAIN ZoomFlags(s1) : ZoomFlags(s1)[b]}) = 1
                /\ \A s2 \in ZoomScales :
                      s1 <= s2 => RadiusFor(ZoomFlags(s1)) <= RadiusFor(ZoomFlags(s2)))
    /\ [][currentZoomScale' # currentZoomScale =>
            /\ applied'.called /\ applied'.scale = zoomK'
            /\ \A n \in DOMAIN circles : circles'[n].r = applied'.radius]_vars

\* C15 witness: the last call was made at the Abstract/Minimal threshold
\* 0.45 and the circles are at 0.8 of their radius.
RadiusByBandWitness ==
    /\ applied.called
    /\ applied.scale = 450
    /\ applied.bands = {"isMinimal"}
    /\ circles # <<>>
    /\ \A n \in DOMAIN circles : circles[n].r = 80

\* C16: a hover-exit that directly follows its hover-enter leaves the node
\* radii and glow filters, the node opacities and the edge opacities and
\* widths as they were before the hover-enter.
HoverRoundTrip ==
    [][(hovered # 0 /\ hovered' = 0 /\ snapshot.valid) =>
            /\ circles' = snapshot.circles
            /\ nodeOpacity' = snapshot.nodeOpacity
            /\ linkStyle' = snapshot.linkStyle]_vars

\* The nodes that are neither the selected node nor linked to it.
AwayFromSelection ==
    {n \in DOMAIN graph.nodes :
        /\ graph.nodes[n].id # selectedMethodId
        /\ ~IsConnected(graph, selectedMethodId, graph.nodes[n].id)}

\* C17: with a selected node configured, every node away from the selection
\* is dimmed to 0.3 and the selected node has its accent outline and glow,
\* whatever hover events have happened.
SelectionKept ==
    selectedMethodId # NoId =>
        /\ \A n \in AwayFromSelection : nodeOpacity[n] = 30
        /\ \A n \in DOMAIN graph.nodes :
              graph.nodes[n].id = selectedMethodId =>
                  circles[n].stroke = "accent" /\ circles[n].filter = "glow"

----------------------------------------------------------------------------
(* Properties of a failing initialization (SpecFailure).                   *)

\* C18: after createRelationshipGraph threw partway, no simulation of that
\* instance is running and its SVG is not attached to the container.
FailedInitReleased ==
    \A inst \in initFailed : inst \notin running /\ attached # inst

----------------------------------------------------------------------------
(* Properties of the similarity stage (SpecGraph, SpecSim).                *)

SimilarEdges == {k \in DOMAIN graph.links : graph.links[k].type = "similar"}

\* C21: when the similarity threshold is greater than the similarity of
\* every pair of the catalog, the built graph has no edge of type similar,
\* whatever the cap and the other options.
ScenarioThresholdAboveMax ==
    (/\ Built
     /\ \A i, j \in DOMAIN methods :
           calculateSimilarity(methods[i], methods[j], pipelineSteps)
               < options.similarityThreshold)
    => SimilarEdges = {}

\* C21 witness: similarity links are enabled, the largest pairwise
\* similarity is 0.6, below the threshold 0.65, no other stage is enabled,
\* and the graph has no edge.
ScenarioThresholdAboveMaxWitness ==
    /\ Built
    /\ OnlyStage("similar")
    /\ options.similarityThreshold = 65
    /\ \E i, j \in DOMAIN methods :
          calculateSimilarity(methods[i], methods[j], pipelineSteps) = 60
    /\ \A i, j \in DOMAIN methods :
          calculateSimilarity(methods[i], methods[j], pipelineSteps) <= 60
    /\ graph.links = <<>>

\* Number of distinct elements present in both lists.
InBoth(list1, list2) == Cardinality(Range(list1) \cap Range(list2))

\* C22: for two records with different ids the score is min(1, 0.25 per
\* modality in both + 0.20 per task in both + 0.10 per tag in both + step
\* bonus + 0.05 for equal maturity + 0.05 for equal evidence type), the
\* step bonus being 0.15 for resolved steps of equal order, 0.05 for
\* orders one apart and 0 otherwise.
SimilarityFormula ==
    phase = "scored" =>
        \A p \in DOMAIN score :
            LET a == methods[p[1]]
                b == methods[p[2]]
                known(m) == \E s \in DOMAIN pipelineSteps :
                                pipelineSteps[s].id = m.pipeline_step
                order(m) == pipelineSteps[CHOOSE s \in DOMAIN pipelineSteps :
                                pipelineSteps[s].id = m.pipeline_step].order
                bonus == IF known(a) /\ known(b)
                         THEN IF order(a) = order(b) THEN 15
                              ELSE IF Abs(order(a) - order(b)) = 1 THEN 5 ELSE 0
                         ELSE 0
            IN  a.id # b.id =>
                    score[p] = Min(100,
                        25 * InBoth(a.modalities, b.modalities)
                        + 20 * InBoth(a.tasks, b.tasks)
                        + 10 * InBoth(a.tags, b.tags)
                        + bonus
                        + (IF a.maturity = b.maturity THEN 5 ELSE 0)
                        + (IF a.evidence_type = b.evidence_type THEN 5 ELSE 0))

\* C27: after a build with similarity links enabled, every pair whose
\* similarity reaches the threshold and which has no edge has an endpoint
\* with exactly maxSimilarLinks incident edges of type similar.
SimilarMaximal ==
    (Built /\ options.showSimilarMethods) =>
        \A i, j \in DOMAIN methods :
            (/\ i < j
             /\ calculateSimilarity(methods[i], methods[j], pipelineSteps)
                    >= options.similarityThreshold
             /\ EdgesOf(i, j) = {})
            => \E n \in {i, j} :
                  Cardinality(Incident(methods[n].id) \cap SimilarEdges)
                      = options.maxSimilarLinks

\* C30: with explicit relations enabled, every method and every id it
\* lists that is not its own and is the id of a method of the catalog are
\* connected by an edge of the built graph, for arbitrary distinct string
\* ids (ids that contain the separator "--" included).
ExplicitComplete ==
    (Built /\ options.showExplicitRelations) =>
        \A i, j \in DOMAIN methods :
            (i # j /\ Lists(i, j)) => EdgesOf(i, j) # {}

----------------------------------------------------------------------------
(* Properties of the wrapper's initialization and teardown (Spec,          *)
(* SpecRetry).                                                             *)

\* C23: when the container keeps zero width, the retrying of the
\* initialization eventually stops: from some point on no retry timeout is
\* pending.
RetryBounded == [](width = 0) => <>[](retryTimers = {})

\* C28: once destroy() has been called on the handle the wrapper holds, the
\* simulation of that instance is not running, whatever control or
\* keyboard shortcut is used afterwards.
DestroyFinal ==
    (destroyed /\ vizRef.kind = "full") => vizRef.inst \notin running

\* C29: a callback of an effect run that has been torn down (an animation
\* frame or a retry timeout of a run other than the current one, or of an
\* unmounted component) creates no visualization and does not assign the
\* handle.
StaleInitCancelled ==
    [][\A g \in (rafPending \ rafPending') \cup (retryTimers \ retryTimers') :
          (g # effectGen \/ ~mounted) => (created' = created /\ vizRef' = vizRef)]_vars

----------------------------------------------------------------------------
(* Properties of the zoom hint (SpecView).                                 *)

\* C24: the zoom hint is shown initially, a zoom event that leaves the
\* initial scale while the hint is shown hides it, and once hidden the hint
\* stays hidden at every later zoom event (a return to the initial scale
\* included).
ZoomHintOnce ==
    /\ zoomHint = "shown"
    /\ [][(zoomHint = "shown" /\ zoomK' # initialScale) => zoomHint' = "hidden"]_vars
    /\ [][zoomHint = "hidden" => zoomHint' = "hidden"]_vars

----------------------------------------------------------------------------
(* Properties of the drag handlers and the restart operation (SpecDrag).   *)

Dragged(n) == \E p \in Pointers : gestures[p] = n

\* C25: after any sequence of drag-start, drag-move and drag-end events a
\* node is pinned exactly while a drag of it is in progress, and the alpha
\* target is 0.3 while some drag is in progress and 0 otherwise.
DragPinning ==
    /\ \A n \in DOMAIN simulation.fx : simulation.fx[n] # NoPin <=> Dragged(n)
    /\ simulation.alphaTarget =
          IF \E n \in DOMAIN simulation.fx : Dragged(n) THEN DragTarget ELSE 0

\* C26: the restart-layout operation sets alpha to its maximum and starts
\* the timer, and leaves every node's position, every pin, the edges and
\* the zoom transform as they were.
RestartFrame ==
    [][RestartLayout =>
          /\ simulation'.alpha = AlphaMax
          /\ simulation'.stepping
          /\ simulation'.x = simulation.x
          /\ simulation'.fx = simulation.fx
          /\ graph'.links = graph.links
          /\ zoomK' = zoomK]_vars

\* C26 witness: the layout was restarted after the simulation had moved the
\* nodes (alpha is at its maximum although a node is away from its initial
\* position), while a node is pinned and the view is zoomed.
RestartFrameWitness ==
    /\ simulation.alpha = AlphaMax
    /\ simulation.stepping
    /\ \E n \in DOMAIN simulation.x : simulation.x[n] # 0
    /\ \E n \in DOMAIN simulation.fx : simulation.fx[n] # NoPin
    /\ graph.links # <<>>
    /\ zoomK # initialScale

====
